---- MODULE Spec2Model ----
(***************************************************************************)
(* State-machine model of the MikoPBX status watcher                       *)
(* (src/src/mikopbx/api.go): the retrying HTTP client (getWithRetry,       *)
(* postJSONWithRetry), the poll loop (Watcher.Run, checkOnce) and the      *)
(* diff-and-notify engine for peers and providers.                         *)
(*                                                                         *)
(* Strings the code compares, folds, formats or sorts are sequences of     *)
(* Unicode code points (their order is the byte order of UTF-8, which      *)
(* sort.Strings uses).  Phrases and titles, which are only passed on, are  *)
(* named by TLA+ strings.                                                  *)
(***************************************************************************)
EXTENDS Integers, Sequences, FiniteSets, TLC

(***************************************************************************)
(* Bounds of the model.                                                    *)
(***************************************************************************)
\* longest "data" array of a response body
MaxData == 2
\* the attempt counter (used for logging only) is counted up to this value
MaxAttempt == 2
\* the attempt counter where one fetch is examined: past the backoff cap
MaxAttemptFetch == 9
\* ticks of the ticker that are counted where the loop of Run is examined
MaxTicks == 3
\* attempts counted where the sleeps are examined
MaxAttemptSleep == 4

(***************************************************************************)
(* String literals of the program, as code points.                         *)
(***************************************************************************)
S_OK == <<79, 75>>
S_ok == <<111, 107>>
S_UNKNOWN == <<85, 78, 75, 78, 79, 87, 78>>
S_FAILED == <<70, 65, 73, 76, 69, 68>>
S_OFF == <<79, 70, 70>>
\* "tanmatsu " (U+7AEF U+672B, space): prefix of a peer event
S_PeerPrefix == <<31471, 26411, 32>>
\* "purobaida " (katakana, space): prefix of a provider event
S_ProvPrefix == <<12503, 12525, 12496, 12452, 12480, 32>>
\* "ofurain" (katakana)
S_Offline == <<12458, 12501, 12521, 12452, 12531>>
\* "onrain" (katakana)
S_Online == <<12458, 12531, 12521, 12452, 12531>>
\* " -> " with U+2192
S_Arrow == <<32, 8594, 32>>
S_ColonSp == <<58, 32>>
S_Bullet == <<45, 32>>
S_NlBullet == <<10, 45, 32>>

(***************************************************************************)
(* The monitored service's vocabulary (inputs of the model).               *)
(***************************************************************************)
Id_p1 == <<112, 49>>
Id_p2 == <<112, 50>>
Id_t1 == <<116, 49>>
Id_t2 == <<116, 50>>
Name_Al == <<65, 108>>
\* the entities the service defines: one peer and one provider where the
\* whole program runs, two entities of a class (or the peer with the empty
\* id) where one poll cycle is examined
\* attempts and ticks tell how far the model counts the attempts of a fetch
\* and the ticks of the ticker; timed tells whether the random part of the
\* sleeps is followed
RunWorlds ==
  {[peers |-> {Id_p1}, provs |-> {Id_t1}, attempts |-> MaxAttempt, ticks |-> 0,
    timed |-> FALSE]}
DiffWorlds ==
  {[peers |-> ps, provs |-> ts, attempts |-> MaxAttempt, ticks |-> 0,
    timed |-> FALSE] :
     <<ps, ts>> \in {<<{Id_p1, Id_p2}, {}>>, <<{<<>>, Id_p1}, {}>>,
                     <<{Id_p1}, {Id_t1}>>, <<{}, {Id_t1, Id_t2}>>}}
\* the loop of Run examined for what eventually happens
LiveWorlds ==
  {[peers |-> {Id_p1}, provs |-> {}, attempts |-> MaxAttempt, ticks |-> 1,
    timed |-> FALSE]}
\* one fetch examined through all its attempts
FetchWorlds ==
  {[peers |-> {Id_p1}, provs |-> {}, attempts |-> MaxAttemptFetch, ticks |-> 0,
    timed |-> FALSE]}
\* one fetch examined for the length of its sleeps
SleepWorlds ==
  {[peers |-> {Id_p1}, provs |-> {}, attempts |-> MaxAttemptSleep, ticks |-> 0,
    timed |-> TRUE]}
\* the loop of Run examined with its ticks counted
LoopWorlds ==
  {[peers |-> {Id_p1}, provs |-> {}, attempts |-> MaxAttempt, ticks |-> MaxTicks,
    timed |-> FALSE]}
PeerStates == {S_OK, S_ok, S_UNKNOWN, S_FAILED}
ProvStates == {S_OK, S_ok, S_OFF}
PeerNames == {<<>>, Name_Al}
\* the response statuses the service answers with
Statuses == {200, 404, 401, 403, 500, 503}

\* the "data" arrays a body may hold: sequences of (id, state) entries
DataOver(ids, states) ==
  UNION {[1..n -> [id : ids, state : states]] : n \in 0..MaxData}

(***************************************************************************)
(* Program constants.                                                      *)
(***************************************************************************)
InitialBackoff == 1000
MaxBackoff == 60000
DirNone == 0
DirUp == 1
DirDown == 2
DirMixed == 3
ColorRed == 15158332
ColorGreen == 3066993
ColorYellow == 15844367
ColorGray == 9807270

VARIABLES
  world,          \* the peer and provider ids the monitored service defines
  pc,             \* position of Run / checkOnce
  cancelled,      \* ctx.Done() is closed
  tickPending,    \* ticker.C (buffer of one) holds a tick
  notifier,       \* kind of w.Notifier: "nil", "plain", "embed"
  lastPeer,       \* w.lastPeer
  lastProv,       \* w.lastProv
  peerNameCache,  \* w.peerNameCache
  backoff,        \* local of the running retry loop (ms), 0 outside
  attempt,        \* local of the running retry loop, 0 outside
  diff,           \* locals of the running diffAndNotifyPeers
  obs,            \* what the last finished fetch-and-diff did (observation)
  fetched,        \* per class: the mapping of the last successful fetch
  everNotified,   \* per class: a notification was ever dispatched
  lastSent,       \* per class: how the latest call of the sink ended
  cycleSent,      \* notifications dispatched in the current cycle
  tally,          \* per fetch: failures and Authenticate calls so far
  count           \* ticks produced, cycles started and running, lookups

vars == <<world, pc, cancelled, tickPending, notifier, lastPeer, lastProv,
          peerNameCache, backoff, attempt, diff, obs, fetched,
          everNotified, lastSent, cycleSent, tally, count>>

EmptyMap == <<>>

(***************************************************************************)
(* Pure helpers.                                                           *)
(***************************************************************************)
\* unicode.ToUpper restricted to the ASCII letters
ToUpperRune(c) == IF c >= 97 /\ c <= 122 THEN c - 32 ELSE c

\* strings.EqualFold on strings of ASCII letters
EqualFold(s, t) ==
  /\ Len(s) = Len(t)
  /\ \A i \in 1..Len(s) : ToUpperRune(s[i]) = ToUpperRune(t[i])

\* faulty variant: compares the raw state with "OK" case-sensitively
isPeerOnline_CaseSensitive(state) == state = S_OK

isPeerOnline(state) == EqualFold(state, S_OK)

isProviderOnline(state) == EqualFold(state, S_OK)

chooseColor(dir) ==
  CASE dir = DirDown -> ColorRed
    [] dir = DirUp -> ColorGreen
    [] dir = DirMixed -> ColorYellow
    [] OTHER -> ColorGray

\* faulty variant: the hasDown case is tested before the mixed case
chooseDir_DownFirst(hasDown, hasUp) ==
  CASE hasDown -> DirDown
    [] hasUp -> DirUp
    [] OTHER -> DirNone

\* the switch that turns hasDown / hasUp into a ChangeDirection
chooseDir(hasDown, hasUp) ==
  CASE hasDown /\ hasUp -> DirMixed
    [] hasDown -> DirDown
    [] hasUp -> DirUp
    [] OTHER -> DirNone

\* faulty variant: doubles without the cap
nextBackoff_NoCap(c) == c * 2

nextBackoff(c) == IF c * 2 > MaxBackoff THEN MaxBackoff ELSE c * 2

\* the loop "for _, p := range Data { cur[p.ID] = p.State }": last entry wins
RECURSIVE BuildCur(_)
BuildCur(data) ==
  IF data = <<>> THEN EmptyMap
  ELSE LET n == Len(data)
           rest == BuildCur(SubSeq(data, 1, n - 1))
           e == data[n]
       IN [i \in (DOMAIN rest) \cup {e.id} |->
             IF i = e.id THEN e.state ELSE rest[i]]

\* byte-wise string order of sort.Strings
RECURSIVE StrLess(_, _)
StrLess(s, t) ==
  IF t = <<>> THEN FALSE
  ELSE IF s = <<>> THEN TRUE
  ELSE IF s[1] # t[1] THEN s[1] < t[1]
  ELSE StrLess(Tail(s), Tail(t))

\* insert an event into a list sorted by text
RECURSIVE InsertSorted(_, _)
InsertSorted(e, sorted) ==
  IF sorted = <<>> THEN <<e>>
  ELSE IF StrLess(e.text, sorted[1].text) THEN <<e>> \o sorted
  ELSE <<sorted[1]>> \o InsertSorted(e, Tail(sorted))

\* faulty variant: the events stay in the order the loops appended them
SortChanges_Unsorted(changes) == changes

\* sort.Strings(changes)
RECURSIVE SortChanges(_)
SortChanges(changes) ==
  IF changes = <<>> THEN <<>>
  ELSE InsertSorted(changes[1], SortChanges(Tail(changes)))

\* "- " + strings.Join(changes, "\n- ")
RECURSIVE JoinChanges(_)
JoinChanges(changes) ==
  IF changes = <<>> THEN <<>>
  ELSE IF Len(changes) = 1 THEN changes[1].text
  ELSE changes[1].text \o S_NlBullet \o JoinChanges(Tail(changes))

Describe(changes) == S_Bullet \o JoinChanges(changes)

\* fmt.Sprintf("%s(%s)", name, id) or the bare id
FormatLabel(name, id) ==
  IF name # <<>> THEN name \o <<40>> \o id \o <<41>> ELSE id

\* fmt.Sprintf("<prefix>%s: %s -> %s", label, from, to)
EventText(prefix, label, dir) ==
  IF dir = "down"
  THEN prefix \o label \o S_ColonSp \o S_Online \o S_Arrow \o S_Offline
  ELSE prefix \o label \o S_ColonSp \o S_Offline \o S_Arrow \o S_Online

(***************************************************************************)
(* Records of the model.                                                   *)
(***************************************************************************)
NoNotif ==
  [method |-> "none", content |-> "", title |-> "", desc |-> <<>>,
   color |-> 0, result |-> ""]

\* the return of a retry helper: which one, and the status it returned
NoRet == [fn |-> "", status |-> 0]

\* no fetch of a class has succeeded yet
NoFetch == [seen |-> FALSE, map |-> EmptyMap]

NoDiff ==
  [cur |-> EmptyMap, todoCur |-> {}, todoLast |-> {}, changes |-> <<>>,
   hasUp |-> FALSE, hasDown |-> FALSE, pending |-> <<>>, pendingDir |-> "",
   lookups |-> 0, before |-> NoFetch]

NoObs ==
  [class |-> "", outcome |-> "none", prev |-> EmptyMap, cur |-> EmptyMap,
   before |-> NoFetch, changes |-> <<>>, hasUp |-> FALSE, hasDown |-> FALSE,
   dir |-> DirNone, color |-> 0, notif |-> NoNotif, lookups |-> 0,
   ret |-> NoRet]

\* a fetch that has not failed yet; last is the status of the last failed
\* attempt (0 for an error of c.http.Do, -1 for none)
NoTally == [grown |-> 0, denied |-> 0, auths |-> 0, last |-> -1, slept |-> -1]

\* nothing has run yet: no tick, no cycle, no GetPeerName call
NoCount(ids) ==
  [ticks |-> 0, cycles |-> 0, running |-> 0, names |-> [id \in ids |-> 0]]

\* pickContent: the pool rand.Intn draws from
DownPhrases == {"down0", "down1", "down2"}
UpPhrases == {"up0", "up1", "up2"}
pickContent(hasDown, hasUp) == IF hasDown THEN DownPhrases ELSE UpPhrases
\* the fixed content of diffAndNotifyProviders, the same string as downs[0]
ProvContent == "down0"

(***************************************************************************)
(* Init: the state New() builds, before Run.                               *)
(***************************************************************************)
Init ==
  /\ world \in RunWorlds
  /\ pc = "start"
  /\ cancelled = FALSE
  /\ tickPending = FALSE
  /\ notifier \in {"nil", "plain", "embed"}
  /\ lastPeer = EmptyMap
  /\ lastProv = EmptyMap
  /\ peerNameCache = EmptyMap
  /\ backoff = 0
  /\ attempt = 0
  /\ diff = NoDiff
  /\ obs = NoObs
  /\ fetched = [c \in {"peer", "prov"} |-> NoFetch]
  /\ everNotified = [c \in {"peer", "prov"} |-> FALSE]
  /\ lastSent = [c \in {"peer", "prov"} |-> "none"]
  /\ cycleSent = 0
  /\ tally = NoTally
  /\ count = NoCount(world.peers)

(***************************************************************************)
(* Environment: the ticker and the context.                                *)
(***************************************************************************)
\* a counter of the model goes up to its cap and stays there
Bump(n, cap) == IF n < cap THEN n + 1 ELSE n

\* the ticker produces a tick; ticker.C holds one tick, a further one is dropped
Tick ==
  /\ pc \notin {"start", "returned"}
  /\ tickPending' = TRUE
  /\ count' = [count EXCEPT !.ticks = Bump(@, world.ticks)]
  /\ UNCHANGED <<world, pc, cancelled, notifier, lastPeer, lastProv, peerNameCache,
                 backoff, attempt, diff, obs, fetched, everNotified, lastSent, cycleSent,
                 tally>>

\* main cancels the context
Cancel ==
  /\ ~cancelled
  /\ cancelled' = TRUE
  /\ UNCHANGED <<world, pc, tickPending, notifier, lastPeer, lastProv, peerNameCache,
                 backoff, attempt, diff, obs, fetched, everNotified, lastSent, cycleSent,
                 tally, count>>

(***************************************************************************)
(* Watcher.Run and the entry of checkOnce.                                 *)
(***************************************************************************)
\* entry of a retry loop: backoff := time.Second; attempt := 1
EnterRetry ==
  /\ backoff' = InitialBackoff
  /\ attempt' = 1
  /\ tally' = NoTally

\* checkOnce begins: GetPeersStatuses enters getWithRetry
BeginCheckOnce ==
  /\ pc' = "peersFetch"
  /\ EnterRetry
  /\ obs' = NoObs
  /\ cycleSent' = 0
  /\ count' = [count EXCEPT !.cycles = Bump(@, world.ticks + 1),
                            !.running = @ + 1]
  /\ UNCHANGED <<world, cancelled, notifier, lastPeer, lastProv, peerNameCache,
                 diff, fetched, everNotified, lastSent>>

\* Run: NewTicker, then the initial checkOnce
RunInitial ==
  /\ pc = "start"
  /\ BeginCheckOnce
  /\ UNCHANGED tickPending

\* faulty variant: the loop calls checkOnce without waiting for a tick
RunTick_Untimed ==
  /\ pc = "wait"
  /\ tickPending' = FALSE
  /\ BeginCheckOnce

\* faulty variant: a tick starts checkOnce wherever the previous one stands
RunTick_Concurrent ==
  /\ pc \notin {"start", "returned"}
  /\ tickPending
  /\ tickPending' = FALSE
  /\ BeginCheckOnce

\* Run: select takes <-ticker.C
RunTick ==
  /\ pc = "wait"
  /\ tickPending
  /\ tickPending' = FALSE
  /\ BeginCheckOnce

\* faulty variant: cancellation ends Run wherever checkOnce stands
RunReturn_Preempts ==
  /\ pc \notin {"start", "returned"}
  /\ cancelled
  /\ pc' = "returned"
  /\ UNCHANGED <<world, cancelled, tickPending, notifier, lastPeer, lastProv,
                 peerNameCache, backoff, attempt, diff, obs, fetched,
                 everNotified, lastSent, cycleSent, tally, count>>

\* Run: select takes <-ctx.Done() and returns
RunReturn ==
  /\ pc = "wait"
  /\ cancelled
  /\ pc' = "returned"
  /\ UNCHANGED <<world, cancelled, tickPending, notifier, lastPeer, lastProv,
                 peerNameCache, backoff, attempt, diff, obs, fetched,
                 everNotified, lastSent, cycleSent, tally, count>>

(***************************************************************************)
(* The retry loops of getWithRetry and postJSONWithRetry: one action per   *)
(* iteration that does not return.                                         *)
(***************************************************************************)
InRetryLoop == pc \in {"peersFetch", "provFetch", "peerLabel"}

\* faulty variant: 403 is not handled as an authorization failure
IsAuthStatus_Only401(status) == status = 401

\* "resp.StatusCode == http.StatusUnauthorized || ... == http.StatusForbidden"
IsAuthStatus(status) == status = 401 \/ status = 403

\* faulty variant: 500 itself is not retried
IsServerError_Above500(status) == status > 500

\* faulty variant: every status from 400 on is retried
IsServerError_From400(status) == status >= 400

\* "resp.StatusCode >= 500"
IsServerError(status) == status >= 500

\* the statuses at which the loop reaches its return statement
IsReturned(status) == ~IsAuthStatus(status) /\ ~IsServerError(status)

\* attempt++ (the model counts the attempts up to world.attempts)
CountAttempt == attempt' = Bump(attempt, world.attempts)

\* the failures of the fetch are tallied as long as the attempts are counted
Tallied(t) == IF attempt < world.attempts THEN t ELSE tally

\* time.Millisecond; the sleeps are counted in microseconds, the backoff in
\* milliseconds
Millisecond == 1000

\* the results of rand.Intn(n)
Intn(n) == 0 .. (n - 1)

\* faulty variant: the jitter reaches 401 ms
jitter_Wide == {r * Millisecond : r \in Intn(402)}

\* jitter(): time.Duration(rand.Intn(401)) * time.Millisecond
jitter == {r * Millisecond : r \in Intn(401)}

Least(S) == CHOOSE x \in S : \A y \in S : x <= y
Greatest(S) == CHOOSE x \in S : \A y \in S : x >= y

\* the two shortest and the two longest values of jitter()
jitterEnds ==
  {d \in jitter : \/ d <= Least(jitter) + Millisecond
                  \/ d >= Greatest(jitter) - Millisecond}

\* the values of jitter() a sleep is followed with: the ends of its range
\* where the sleeps are examined, the shortest elsewhere
jitterDrawn == IF world.timed THEN jitterEnds ELSE {Least(jitter)}

RetryFrame ==
  /\ obs' = NoObs
  /\ UNCHANGED <<world, pc, cancelled, tickPending, notifier, lastPeer, lastProv,
                 peerNameCache, diff, fetched, everNotified, lastSent, cycleSent, count>>

\* c.http.Do fails: sleep backoff + jitter, grow the backoff, next attempt
RetryTransport ==
  /\ InRetryLoop
  /\ backoff' = nextBackoff(backoff)
  /\ CountAttempt
  /\ \E j \in jitterDrawn :
       tally' = Tallied([tally EXCEPT !.grown = @ + 1, !.last = 0,
                                      !.slept = backoff * Millisecond + j])
  /\ RetryFrame

\* Authenticate: nil, or the error of the request or of a status # 200
AuthResults == {"nil", "err"}

\* faulty variant: the 401 / 403 branch grows the backoff too
RetryAuth_GrowsBackoff ==
  /\ InRetryLoop
  /\ \E status \in Statuses, auth \in AuthResults, j \in jitterDrawn :
       /\ IsAuthStatus(status)
       /\ tally' = Tallied([tally EXCEPT !.denied = @ + 1, !.auths = @ + 1,
                                         !.last = status,
                                         !.slept = 200 * Millisecond + j \div 2])
  /\ backoff' = nextBackoff(backoff)
  /\ CountAttempt
  /\ RetryFrame

\* 401 / 403: "_ = c.Authenticate()", sleep 200ms + jitter/2, next attempt
RetryAuth ==
  /\ InRetryLoop
  /\ \E status \in Statuses, auth \in AuthResults, j \in jitterDrawn :
       /\ IsAuthStatus(status)
       /\ tally' = Tallied([tally EXCEPT !.denied = @ + 1, !.auths = @ + 1,
                                         !.last = status,
                                         !.slept = 200 * Millisecond + j \div 2])
  /\ backoff' = backoff
  /\ CountAttempt
  /\ RetryFrame

\* status >= 500: sleep backoff + jitter, grow the backoff, next attempt
RetryServer ==
  /\ InRetryLoop
  /\ \E status \in Statuses, j \in jitterDrawn :
       /\ ~IsAuthStatus(status) /\ IsServerError(status)
       /\ tally' = Tallied([tally EXCEPT !.grown = @ + 1, !.last = status,
                                         !.slept = backoff * Millisecond + j])
  /\ backoff' = nextBackoff(backoff)
  /\ CountAttempt
  /\ RetryFrame

(***************************************************************************)
(* diffAndNotifyPeers.  The two range loops visit the map entries in any   *)
(* order; the walk runs until resolvePeerLabel has to call GetPeerName     *)
(* (a cache miss), where it waits in postJSONWithRetry.                    *)
(***************************************************************************)
\* faulty variant: a newly seen id never yields an event
PeerNeedCur_IgnoresNew(prev, cur, id) ==
  IF id \notin DOMAIN prev THEN "none"
  ELSE IF isPeerOnline(prev[id]) # isPeerOnline(cur[id])
       THEN IF isPeerOnline(prev[id]) /\ ~isPeerOnline(cur[id])
            THEN "down" ELSE "up"
       ELSE "none"

\* faulty variant: compares the raw states instead of the online predicate
PeerNeedCur_RawCompare(prev, cur, id) ==
  IF id \notin DOMAIN prev
  THEN IF isPeerOnline(cur[id]) THEN "up" ELSE "none"
  ELSE IF prev[id] # cur[id]
       THEN IF isPeerOnline(cur[id]) THEN "up" ELSE "down"
       ELSE "none"

\* the event the first loop (over cur) appends for id: "up", "down", "none"
PeerNeedCur(prev, cur, id) ==
  IF id \notin DOMAIN prev
  THEN IF isPeerOnline(cur[id]) THEN "up" ELSE "none"
  ELSE IF isPeerOnline(prev[id]) # isPeerOnline(cur[id])
       THEN IF isPeerOnline(prev[id]) /\ ~isPeerOnline(cur[id])
            THEN "down" ELSE "up"
       ELSE "none"

\* faulty variant: without the loop over the disappeared peers
PeerNeedLast_Silent(prev, cur, id) == "none"

\* the event the second loop (over the previous snapshot) appends for id
PeerNeedLast(prev, cur, id) ==
  IF id \notin DOMAIN cur /\ isPeerOnline(prev[id]) THEN "down" ELSE "none"

\* faulty variant: a cached empty label counts as a miss
LabelKnown_RetriesEmpty(cache, id) ==
  id = <<>> \/ (id \in DOMAIN cache /\ cache[id] # <<>>)

\* resolvePeerLabel answers from the cache (or for the empty id)
LabelKnown(cache, id) == id = <<>> \/ id \in DOMAIN cache

CachedLabel(cache, id) ==
  IF id = <<>> THEN id ELSE FormatLabel(cache[id], id)

\* changes = append(changes, ...) with hasUp / hasDown set; id and dir tag
\* the text with the entity and the transition it reports
AppendChange(d, id, label, dir, prefix) ==
  [d EXCEPT !.changes = Append(@, [text |-> EventText(prefix, label, dir),
                                    id |-> id, dir |-> dir]),
            !.hasUp = @ \/ dir = "up",
            !.hasDown = @ \/ dir = "down"]

\* the states in which the walk of the two loops stops: at a cache miss
\* (pendingDir # "") or at the end of the second loop
RECURSIVE WalkPeers(_, _, _)
WalkPeers(d, prev, cache) ==
  LET Visit(d1, id, dir) ==
        IF dir = "none" THEN WalkPeers(d1, prev, cache)
        ELSE IF ~LabelKnown(cache, id)
        THEN {[d1 EXCEPT !.pending = id, !.pendingDir = dir]}
        ELSE WalkPeers(AppendChange(d1, id, CachedLabel(cache, id), dir,
                                    S_PeerPrefix), prev, cache)
  IN IF d.todoCur # {}
     THEN UNION {Visit([d EXCEPT !.todoCur = @ \ {id}], id,
                       PeerNeedCur(prev, d.cur, id)) : id \in d.todoCur}
     ELSE IF d.todoLast # {}
     THEN UNION {Visit([d EXCEPT !.todoLast = @ \ {id}], id,
                       PeerNeedLast(prev, d.cur, id)) : id \in d.todoLast}
     ELSE {d}

\* the sink call of a diff: NotifyEmbed if the notifier has it, else Notify
SinkCall(content, title, sorted, color, result) ==
  IF notifier = "embed"
  THEN [method |-> "NotifyEmbed", content |-> content, title |-> title,
        desc |-> Describe(sorted), color |-> color, result |-> result]
  ELSE [method |-> "Notify", content |-> content, title |-> "",
        desc |-> Describe(sorted), color |-> 0, result |-> result]

\* faulty variant: without the len(changes) > 0 test
ShouldNotify_AnyDiff(changes) == notifier # "nil"

\* "if len(changes) > 0 && w.Notifier != nil"
ShouldNotify(changes) == Len(changes) > 0 /\ notifier # "nil"

\* the observation of a finished diff, before the sink call is known
DiffObs(class, prev, d, ret) ==
  [class |-> class, outcome |-> "diff", prev |-> prev, cur |-> d.cur,
   before |-> d.before, changes |-> d.changes, hasUp |-> d.hasUp,
   hasDown |-> d.hasDown, dir |-> DirNone, color |-> 0, notif |-> NoNotif,
   lookups |-> d.lookups, ret |-> ret]

\* the tail of diffAndNotifyPeers / diffAndNotifyProviders: sort, render,
\* dispatch (the sink's error is dropped); the caller stores cur
Dispatch(class, prev, d, ret, contents, title) ==
  IF ShouldNotify(d.changes)
  THEN \E content \in contents, result \in {"ok", "err"} :
         LET sorted == SortChanges(d.changes)
             dir == chooseDir(d.hasDown, d.hasUp)
             color == chooseColor(dir)
         IN /\ obs' = [DiffObs(class, prev, d, ret) EXCEPT
                         !.dir = dir, !.color = color,
                         !.notif = SinkCall(content, title, sorted, color,
                                            result)]
            /\ everNotified' = [everNotified EXCEPT ![class] = TRUE]
            /\ lastSent' = [lastSent EXCEPT ![class] = result]
            /\ cycleSent' = cycleSent + 1
  ELSE /\ obs' = DiffObs(class, prev, d, ret)
       /\ UNCHANGED <<everNotified, lastSent, cycleSent>>

\* the observation of a first snapshot stored without a diff
ColdObs(class, cur, ret) ==
  [NoObs EXCEPT !.class = class, !.outcome = "cold", !.cur = cur,
                !.before = fetched[class], !.ret = ret]

\* the observation of a fetch that returned an error
ErrorObs(class, prev, ret) ==
  [NoObs EXCEPT !.class = class, !.outcome = "error", !.prev = prev,
                !.before = fetched[class], !.ret = ret]

\* checkOnce goes on to GetRegistry, which enters getWithRetry
ToProvFetch ==
  /\ pc' = "provFetch"
  /\ EnterRetry

\* checkOnce returns to Run's select
ToWait ==
  /\ pc' = "wait"
  /\ backoff' = 0
  /\ attempt' = 0
  /\ tally' = NoTally
  /\ count' = [count EXCEPT !.running = @ - 1]

\* faulty variant: the diff ends without "w.lastPeer = cur"
ContinuePeers_KeepsOld(d, ret) ==
  IF d.pendingDir # ""
  THEN /\ pc' = "peerLabel"
       /\ EnterRetry
       /\ diff' = d
       /\ obs' = [NoObs EXCEPT !.ret = ret]
       /\ count' = [count EXCEPT !.names[d.pending] = @ + 1]
       /\ UNCHANGED <<lastPeer, everNotified, lastSent, cycleSent>>
  ELSE /\ Dispatch("peer", lastPeer, d, ret, pickContent(d.hasDown, d.hasUp),
                   "peerTitle")
       /\ lastPeer' = lastPeer
       /\ diff' = NoDiff
       /\ ToProvFetch
       /\ UNCHANGED count

\* faulty variant: "w.lastPeer = cur" only when the sink returned no error
ContinuePeers_StoresOnSuccess(d, ret) ==
  IF d.pendingDir # ""
  THEN /\ pc' = "peerLabel"
       /\ EnterRetry
       /\ diff' = d
       /\ obs' = [NoObs EXCEPT !.ret = ret]
       /\ count' = [count EXCEPT !.names[d.pending] = @ + 1]
       /\ UNCHANGED <<lastPeer, everNotified, lastSent, cycleSent>>
  ELSE /\ Dispatch("peer", lastPeer, d, ret, pickContent(d.hasDown, d.hasUp),
                   "peerTitle")
       /\ lastPeer' = IF obs'.notif.result = "err" THEN lastPeer ELSE d.cur
       /\ diff' = NoDiff
       /\ ToProvFetch
       /\ UNCHANGED count

\* the walk stopped in state d: wait for GetPeerName, or finish the diff
ContinuePeers(d, ret) ==
  IF d.pendingDir # ""
  THEN /\ pc' = "peerLabel"
       /\ EnterRetry
       /\ diff' = d
       /\ obs' = [NoObs EXCEPT !.ret = ret]
       /\ count' = [count EXCEPT !.names[d.pending] = @ + 1]
       /\ UNCHANGED <<lastPeer, everNotified, lastSent, cycleSent>>
  ELSE /\ Dispatch("peer", lastPeer, d, ret, pickContent(d.hasDown, d.hasUp),
                   "peerTitle")
       /\ lastPeer' = d.cur
       /\ diff' = NoDiff
       /\ ToProvFetch
       /\ UNCHANGED count

\* the mappings the loop over a body's "data" array can build
CurMaps(ids, states) == {BuildCur(data) : data \in DataOver(ids, states)}

Worlds ==
  RunWorlds \cup DiffWorlds \cup FetchWorlds \cup LoopWorlds \cup LiveWorlds
    \cup SleepWorlds

\* CurMaps per world, computed once
PeerCurMaps == [ids \in {w.peers : w \in Worlds} |-> CurMaps(ids, PeerStates)]
ProvCurMaps == [ids \in {w.provs : w \in Worlds} |-> CurMaps(ids, ProvStates)]

\* faulty variant: without the first-snapshot branch
diffAndNotifyPeers_NoColdStart(cur, ret) ==
  \E d \in WalkPeers([NoDiff EXCEPT !.cur = cur,
                                    !.todoCur = DOMAIN cur,
                                    !.todoLast = DOMAIN lastPeer,
                                    !.before = fetched["peer"]],
                     lastPeer, peerNameCache) :
    ContinuePeers(d, ret)

\* diffAndNotifyPeers from its entry, cur being the map built from the body
diffAndNotifyPeers(cur, ret) ==
  IF lastPeer = EmptyMap
  THEN /\ lastPeer' = cur
       /\ obs' = ColdObs("peer", cur, ret)
       /\ ToProvFetch
       /\ UNCHANGED <<diff, everNotified, lastSent, cycleSent, count>>
  ELSE \E d \in WalkPeers([NoDiff EXCEPT !.cur = cur,
                                         !.todoCur = DOMAIN cur,
                                         !.todoLast = DOMAIN lastPeer,
                                         !.before = fetched["peer"]],
                          lastPeer, peerNameCache) :
         ContinuePeers(d, ret)

\* GetPeersStatuses returns a parsed body: checkOnce calls diffAndNotifyPeers
PeersFetchOK ==
  /\ pc = "peersFetch"
  /\ \E status \in Statuses, cur \in PeerCurMaps[world.peers] :
       /\ IsReturned(status)
       /\ status = 200
       /\ diffAndNotifyPeers(cur, [fn |-> "getWithRetry", status |-> status])
       /\ fetched' = [fetched EXCEPT !["peer"] = [seen |-> TRUE, map |-> cur]]
  /\ UNCHANGED <<world, cancelled, tickPending, notifier, lastProv,
                 peerNameCache>>

\* faulty variant: the error branch stores the zero-value response
PeersFetchError_DropsSnapshot ==
  /\ pc = "peersFetch"
  /\ \E status \in Statuses :
       /\ IsReturned(status)
       /\ \E parses \in BOOLEAN : status # 200 \/ ~parses
       /\ obs' = ErrorObs("peer", lastPeer,
                          [fn |-> "getWithRetry", status |-> status])
  /\ lastPeer' = EmptyMap
  /\ ToProvFetch
  /\ UNCHANGED <<world, cancelled, tickPending, notifier, lastProv,
                 peerNameCache, diff, fetched, everNotified, lastSent, cycleSent, count>>

\* faulty variant: checkOnce returns on the peer fetch error
PeersFetchError_EndsCycle ==
  /\ pc = "peersFetch"
  /\ \E status \in Statuses :
       /\ IsReturned(status)
       /\ \E parses \in BOOLEAN : status # 200 \/ ~parses
       /\ obs' = ErrorObs("peer", lastPeer,
                          [fn |-> "getWithRetry", status |-> status])
  /\ ToWait
  /\ UNCHANGED <<world, cancelled, tickPending, notifier, lastPeer, lastProv,
                 peerNameCache, diff, fetched, everNotified, lastSent, cycleSent>>

\* GetPeersStatuses returns an error (status # 200, or a body that does not
\* parse): checkOnce logs it and goes on to the providers
PeersFetchError ==
  /\ pc = "peersFetch"
  /\ \E status \in Statuses :
       /\ IsReturned(status)
       /\ \E parses \in BOOLEAN : status # 200 \/ ~parses
       /\ obs' = ErrorObs("peer", lastPeer,
                          [fn |-> "getWithRetry", status |-> status])
  /\ ToProvFetch
  /\ UNCHANGED <<world, cancelled, tickPending, notifier, lastPeer, lastProv,
                 peerNameCache, diff, fetched, everNotified, lastSent, cycleSent, count>>

\* GetPeerName's result: the name, or "" on any failure
PeerNameResult(status, parses, result, name) ==
  IF status # 200 \/ ~parses \/ ~result THEN <<>> ELSE name

\* postJSONWithRetry returns: GetPeerName yields a name (or an error and ""),
\* resolvePeerLabel caches it, and the walk goes on
PeerNameReturn ==
  /\ pc = "peerLabel"
  /\ \E status \in Statuses :
       /\ IsReturned(status)
       /\ \E got \in {PeerNameResult(status, parses, result, name) :
                       parses \in BOOLEAN, result \in BOOLEAN,
                       name \in PeerNames} :
            LET id == diff.pending
                cache == [i \in (DOMAIN peerNameCache) \cup {id} |->
                            IF i = id THEN got ELSE peerNameCache[i]]
                d1 == AppendChange([diff EXCEPT !.pending = <<>>,
                                                !.pendingDir = "",
                                                !.lookups = @ + 1],
                                   id, FormatLabel(got, id), diff.pendingDir,
                                   S_PeerPrefix)
            IN /\ peerNameCache' = cache
               /\ \E d \in WalkPeers(d1, lastPeer, cache) :
                    ContinuePeers(d, [fn |-> "postJSONWithRetry",
                                      status |-> status])
  /\ UNCHANGED <<world, cancelled, tickPending, notifier, lastProv, fetched>>

(***************************************************************************)
(* diffAndNotifyProviders: no label lookup, so the whole function is one   *)
(* step.                                                                   *)
(***************************************************************************)
ProvNeedCur(prev, cur, id) ==
  IF id \notin DOMAIN prev
  THEN IF isProviderOnline(cur[id]) THEN "up" ELSE "none"
  ELSE IF isProviderOnline(prev[id]) # isProviderOnline(cur[id])
       THEN IF isProviderOnline(prev[id]) /\ ~isProviderOnline(cur[id])
            THEN "down" ELSE "up"
       ELSE "none"

ProvNeedLast(prev, cur, id) ==
  IF id \notin DOMAIN cur /\ isProviderOnline(prev[id]) THEN "down" ELSE "none"

\* the two range loops of diffAndNotifyProviders, in any visiting order
RECURSIVE WalkProviders(_, _)
WalkProviders(d, prev) ==
  LET Visit(d1, id, dir) ==
        IF dir = "none" THEN WalkProviders(d1, prev)
        ELSE WalkProviders(AppendChange(d1, id, id, dir, S_ProvPrefix), prev)
  IN IF d.todoCur # {}
     THEN UNION {Visit([d EXCEPT !.todoCur = @ \ {id}], id,
                       ProvNeedCur(prev, d.cur, id)) : id \in d.todoCur}
     ELSE IF d.todoLast # {}
     THEN UNION {Visit([d EXCEPT !.todoLast = @ \ {id}], id,
                       ProvNeedLast(prev, d.cur, id)) : id \in d.todoLast}
     ELSE {d}

diffAndNotifyProviders(cur, ret) ==
  IF lastProv = EmptyMap
  THEN /\ lastProv' = cur
       /\ obs' = ColdObs("prov", cur, ret)
       /\ UNCHANGED <<everNotified, lastSent, cycleSent>>
  ELSE \E d \in WalkProviders([NoDiff EXCEPT !.cur = cur,
                                             !.todoCur = DOMAIN cur,
                                             !.todoLast = DOMAIN lastProv,
                                             !.before = fetched["prov"]],
                              lastProv) :
         /\ Dispatch("prov", lastProv, d, ret, {ProvContent}, "provTitle")
         /\ lastProv' = d.cur

\* GetRegistry returns a parsed body: checkOnce calls diffAndNotifyProviders
ProvFetchOK ==
  /\ pc = "provFetch"
  /\ \E status \in Statuses, cur \in ProvCurMaps[world.provs] :
       /\ IsReturned(status)
       /\ status = 200
       /\ diffAndNotifyProviders(cur, [fn |-> "getWithRetry",
                                       status |-> status])
       /\ fetched' = [fetched EXCEPT !["prov"] = [seen |-> TRUE, map |-> cur]]
  /\ ToWait
  /\ UNCHANGED <<world, cancelled, tickPending, notifier, lastPeer,
                 peerNameCache, diff>>

\* GetRegistry returns an error: checkOnce logs it and returns
ProvFetchError ==
  /\ pc = "provFetch"
  /\ \E status \in Statuses :
       /\ IsReturned(status)
       /\ \E parses \in BOOLEAN : status # 200 \/ ~parses
       /\ obs' = ErrorObs("prov", lastProv,
                          [fn |-> "getWithRetry", status |-> status])
  /\ ToWait
  /\ UNCHANGED <<world, cancelled, tickPending, notifier, lastPeer, lastProv,
                 peerNameCache, diff, fetched, everNotified, lastSent, cycleSent>>

(***************************************************************************)
(* The specification.                                                      *)
(***************************************************************************)
Next ==
  \/ Tick
  \/ Cancel
  \/ RunInitial
  \/ RunTick
  \/ RunReturn
  \/ RetryTransport
  \/ RetryAuth
  \/ RetryServer
  \/ PeersFetchOK
  \/ PeersFetchError
  \/ PeerNameReturn
  \/ ProvFetchOK
  \/ ProvFetchError

Spec == Init /\ [][Next]_vars

(***************************************************************************)
(* One poll cycle from any state the watcher can hold at the entry of      *)
(* checkOnce: any stored snapshots and label cache over the world's ids.   *)
(* The service answers every request of this cycle at the first attempt.   *)
(***************************************************************************)
MapsOver(ids, vals) == UNION {[d -> vals] : d \in SUBSET ids}

InitDiff ==
  /\ world \in DiffWorlds
  /\ pc = "peersFetch"
  /\ cancelled = FALSE
  /\ tickPending = FALSE
  /\ notifier \in {"nil", "plain", "embed"}
  /\ lastPeer \in MapsOver(world.peers, PeerStates)
  /\ lastProv \in MapsOver(world.provs, ProvStates)
  /\ peerNameCache \in MapsOver(world.peers \ {<<>>}, PeerNames)
  /\ backoff = InitialBackoff
  /\ attempt = 1
  /\ diff = NoDiff
  /\ obs = NoObs
  /\ fetched = [c \in {"peer", "prov"} |->
                  IF c = "peer"
                  THEN [seen |-> lastPeer # EmptyMap, map |-> lastPeer]
                  ELSE [seen |-> lastProv # EmptyMap, map |-> lastProv]]
  /\ everNotified = [c \in {"peer", "prov"} |->
                       c = "peer" /\ notifier # "nil"
                                 /\ peerNameCache # EmptyMap]
  /\ lastSent \in [{"peer", "prov"} -> {"none", "ok", "err"}]
  /\ \A c \in {"peer", "prov"} : everNotified[c] <=> lastSent[c] # "none"
  /\ cycleSent = 0
  /\ tally = NoTally
  /\ count = [ticks |-> 0, cycles |-> 1, running |-> 1,
              names |-> [id \in world.peers |->
                           IF id \in DOMAIN peerNameCache THEN 1 ELSE 0]]

NextDiff ==
  \/ PeersFetchOK
  \/ PeersFetchError
  \/ PeerNameReturn
  \/ ProvFetchOK
  \/ ProvFetchError

SpecDiff == InitDiff /\ [][NextDiff]_vars

(***************************************************************************)
(* One poll cycle with every attempt of its fetches counted.  The watcher  *)
(* is at the select of Run with a tick pending; it has seen no peer or an  *)
(* offline one, so that the cycle can come to look up a label.             *)
(***************************************************************************)
FetchStart ==
  /\ pc = "wait"
  /\ cancelled = FALSE
  /\ tickPending = TRUE
  /\ notifier \in {"plain", "embed"}
  /\ lastPeer \in MapsOver(world.peers, {S_UNKNOWN})
  /\ lastProv = EmptyMap
  /\ peerNameCache = EmptyMap
  /\ backoff = 0
  /\ attempt = 0
  /\ diff = NoDiff
  /\ obs = NoObs
  /\ fetched = [c \in {"peer", "prov"} |->
                  IF c = "peer" THEN [seen |-> TRUE, map |-> lastPeer]
                  ELSE [seen |-> TRUE, map |-> EmptyMap]]
  /\ everNotified = [c \in {"peer", "prov"} |-> FALSE]
  /\ lastSent = [c \in {"peer", "prov"} |-> "none"]
  /\ cycleSent = 0
  /\ tally = NoTally
  /\ count = [NoCount(world.peers) EXCEPT !.cycles = 1]

InitFetch == world \in FetchWorlds /\ FetchStart

NextFetch ==
  \/ RunTick
  \/ RetryTransport
  \/ RetryAuth
  \/ RetryServer
  \/ PeersFetchOK
  \/ PeersFetchError
  \/ PeerNameReturn
  \/ ProvFetchOK
  \/ ProvFetchError

SpecFetch == InitFetch /\ [][NextFetch]_vars

\* the same cycle with the length of every counted sleep followed
InitSleep == world \in SleepWorlds /\ FetchStart

SpecSleep == InitSleep /\ [][NextFetch]_vars

(***************************************************************************)
(* The loop of Run with its ticks and cycles counted, from New() on, in a  *)
(* service that defines one peer and no provider.                          *)
(***************************************************************************)
LoopStart ==
  /\ pc = "start"
  /\ cancelled = FALSE
  /\ tickPending = FALSE
  /\ notifier = "embed"
  /\ lastPeer = EmptyMap
  /\ lastProv = EmptyMap
  /\ peerNameCache = EmptyMap
  /\ backoff = 0
  /\ attempt = 0
  /\ diff = NoDiff
  /\ obs = NoObs
  /\ fetched = [c \in {"peer", "prov"} |-> NoFetch]
  /\ everNotified = [c \in {"peer", "prov"} |-> FALSE]
  /\ lastSent = [c \in {"peer", "prov"} |-> "none"]
  /\ cycleSent = 0
  /\ tally = NoTally
  /\ count = NoCount(world.peers)

InitLoop == world \in LoopWorlds /\ LoopStart

InitLive == world \in LiveWorlds /\ LoopStart

SpecLoop == InitLoop /\ [][Next]_vars

\* The same loop when the goroutine of Run keeps running, the service ends
\* every fetch at some attempt with a status that is returned, and the
\* select of Run, which chooses at random among its ready cases, does not
\* pass over <-ctx.Done() forever.
LiveLoop ==
  /\ InitLive
  /\ [][Next]_vars
  /\ WF_vars(RunInitial)
  /\ WF_vars(PeersFetchOK \/ PeersFetchError)
  /\ WF_vars(PeerNameReturn)
  /\ WF_vars(ProvFetchOK \/ ProvFetchError)
  /\ SF_vars(RunReturn)

(***************************************************************************)
(* Properties.  They read the observation of the last finished fetch and   *)
(* diff (obs) and judge it with their own reading of the raw states.       *)
(***************************************************************************)
Classes == {"peer", "prov"}

\* the stored snapshot of a class
Stored(class) == IF class = "peer" THEN lastPeer ELSE lastProv

\* the raw states that equal "OK" up to case: OK, Ok, oK, ok
OnlineRaw(state) ==
  state \in {<<79, 75>>, <<79, 107>>, <<111, 75>>, <<111, 107>>}

\* id is present and online in mapping m
OnlineIn(m, id) == id \in DOMAIN m /\ OnlineRaw(m[id])

\* number of events of the observed diff that report id going dir
CountEvents(id, dir) ==
  Cardinality({i \in 1..Len(obs.changes) :
                 obs.changes[i].id = id /\ obs.changes[i].dir = dir})

NoEvent(id) == CountEvents(id, "up") = 0 /\ CountEvents(id, "down") = 0
OneDown(id) == CountEvents(id, "up") = 0 /\ CountEvents(id, "down") = 1
OneUp(id) == CountEvents(id, "up") = 1 /\ CountEvents(id, "down") = 0

\* a call of diffAndNotifyPeers / diffAndNotifyProviders has returned
Diffed == obs.outcome \in {"cold", "diff"}

\* C1: cold start.  When the stored snapshot of a class is empty, the diff
\* emits no event, sends no notification, looks up no label, and leaves the
\* fetched mapping as the stored snapshot.
ColdStartSeedsSilently ==
  (Diffed /\ obs.prev = EmptyMap) =>
    /\ obs.changes = <<>>
    /\ obs.notif = NoNotif
    /\ obs.lookups = 0
    /\ Stored(obs.class) = obs.cur
    /\ fetched[obs.class] = [seen |-> TRUE, map |-> obs.cur]

\* a cold start of the peers whose fetched mapping holds an online peer,
\* with a notifier configured
ColdStartWitness ==
  /\ obs.class = "peer"
  /\ obs.outcome = "cold"
  /\ notifier # "nil"
  /\ \E id \in DOMAIN obs.cur : OnlineRaw(obs.cur[id])
  /\ lastPeer = obs.cur

\* C2: online/offline boundary only.  An id present in the previous and in
\* the current snapshot yields exactly one down-event when it went from
\* online to offline, exactly one up-event when it went from offline to
\* online, and no event when the online predicate is the same, whatever the
\* raw strings.
BoundaryOnly ==
  obs.outcome = "diff" =>
    \A id \in (DOMAIN obs.prev) \cap (DOMAIN obs.cur) :
      LET was == OnlineRaw(obs.prev[id])
          now == OnlineRaw(obs.cur[id])
      IN /\ (was /\ ~now) => OneDown(id)
         /\ (~was /\ now) => OneUp(id)
         /\ (was = now) => NoEvent(id)

\* one peer went from "ok" to "UNKNOWN" (a down-event), the other from
\* "UNKNOWN" to "FAILED" (no event)
BoundaryWitness ==
  /\ obs.class = "peer"
  /\ obs.outcome = "diff"
  /\ \E a, b \in (DOMAIN obs.prev) \cap (DOMAIN obs.cur) :
       /\ obs.prev[a] = S_ok /\ obs.cur[a] = S_UNKNOWN /\ OneDown(a)
       /\ obs.prev[b] = S_UNKNOWN /\ obs.cur[b] = S_FAILED /\ NoEvent(b)

\* C3: disappearance.  An id of the previous snapshot that is absent from
\* the current mapping yields exactly one down-event when it was online and
\* no event when it was offline, also when the current mapping is empty.
Disappearance ==
  obs.outcome = "diff" =>
    \A id \in (DOMAIN obs.prev) \ (DOMAIN obs.cur) :
      IF OnlineRaw(obs.prev[id]) THEN OneDown(id) ELSE NoEvent(id)

\* both peers disappear (the current mapping is empty): the online one
\* yields a down-event, the offline one none
DisappearanceWitness ==
  /\ obs.class = "peer"
  /\ obs.outcome = "diff"
  /\ obs.cur = EmptyMap
  /\ \E a, b \in DOMAIN obs.prev :
       /\ OnlineRaw(obs.prev[a]) /\ OneDown(a)
       /\ ~OnlineRaw(obs.prev[b]) /\ NoEvent(b)

\* what C4 says of the ids that are new in the current mapping
NewAppearanceHolds ==
  \A id \in (DOMAIN obs.cur) \ (DOMAIN obs.prev) :
    IF OnlineRaw(obs.cur[id]) THEN OneUp(id) ELSE NoEvent(id)

\* C4 as stated: in every diff, an id absent from the previous snapshot and
\* present in the current mapping yields exactly one up-event when online
\* and no event when offline.
NewAppearanceAlways == Diffed => NewAppearanceHolds

\* C4 as amended: in every diff against a non-empty previous snapshot, an id
\* absent from the previous snapshot and present in the current mapping
\* yields exactly one up-event when online and no event when offline.
NewAppearanceAfterSeed ==
  (Diffed /\ obs.prev # EmptyMap) => NewAppearanceHolds

\* a provider appears online beside a known one, and yields an up-event
NewAppearanceWitness ==
  /\ obs.outcome = "diff"
  /\ obs.prev # EmptyMap
  /\ obs.class = "prov"
  /\ \E id \in (DOMAIN obs.cur) \ (DOMAIN obs.prev) :
       OnlineRaw(obs.cur[id]) /\ OneUp(id)

\* C5: aggregate direction and colour.  In every dispatched notification the
\* direction is Mixed (yellow) exactly when there are a down-event and an
\* up-event, Down (red) exactly when all events are down-events, Up (green)
\* exactly when all are up-events; None and gray never appear.
DirectionAndColor ==
  obs.notif.method # "none" =>
    LET downs == \E i \in 1..Len(obs.changes) : obs.changes[i].dir = "down"
        ups == \E i \in 1..Len(obs.changes) : obs.changes[i].dir = "up"
    IN /\ obs.dir = DirMixed <=> (downs /\ ups)
       /\ obs.dir = DirDown <=> (downs /\ ~ups)
       /\ obs.dir = DirUp <=> (~downs /\ ups)
       /\ obs.dir # DirNone
       /\ obs.dir = DirMixed => obs.color = 15844367
       /\ obs.dir = DirDown => obs.color = 15158332
       /\ obs.dir = DirUp => obs.color = 3066993
       /\ obs.color # 9807270
       /\ obs.notif.method = "NotifyEmbed" => obs.notif.color = obs.color

\* a rich notification with a down-event and an up-event, coloured yellow
DirectionWitness ==
  /\ obs.notif.method = "NotifyEmbed"
  /\ obs.dir = DirMixed
  /\ obs.notif.color = 15844367
  /\ Len(obs.changes) = 2

\* C6: last-known-good.  A step in which GetPeersStatuses / GetRegistry
\* returns an error runs no diff, sends no notification and leaves the
\* stored snapshots (and the label cache) as they were.
LastKnownGood ==
  [][obs'.outcome = "error" =>
       /\ lastPeer' = lastPeer
       /\ lastProv' = lastProv
       /\ peerNameCache' = peerNameCache
       /\ everNotified' = everNotified
       /\ cycleSent' = cycleSent
       /\ obs'.notif = NoNotif
       /\ obs'.changes = <<>>
       /\ diff' = diff]_vars

\* the peers fetch fails with a 404 while a snapshot is stored, which stays
LastKnownGoodWitness ==
  /\ obs.class = "peer"
  /\ obs.outcome = "error"
  /\ obs.ret.status = 404
  /\ lastPeer # EmptyMap
  /\ lastPeer = obs.prev

\* C7 as stated: the stored snapshot of a class is either empty, and then no
\* notification was ever sent for the class, or equal to the mapping of the
\* last successful fetch of the class (read outside a running diff).
EmptySnapshotNeverNotified ==
  pc # "peerLabel" =>
    \A c \in Classes :
      IF Stored(c) = EmptyMap
      THEN ~everNotified[c]
      ELSE fetched[c].seen /\ Stored(c) = fetched[c].map

\* C7 as amended: outside a running diff, the stored snapshot of a class
\* equals the mapping of the last successful fetch of the class (which may
\* be empty, also after notifications were sent); before the first
\* successful fetch it is empty and no notification was sent for the class.
SnapshotIsLastFetch ==
  pc # "peerLabel" =>
    \A c \in Classes :
      IF fetched[c].seen
      THEN Stored(c) = fetched[c].map
      ELSE Stored(c) = EmptyMap /\ ~everNotified[c]

\* the peer snapshot is empty again after a notification was sent: the last
\* successful fetch returned no peer
SnapshotWitness ==
  /\ pc = "wait"
  /\ lastPeer = EmptyMap
  /\ fetched["peer"].seen
  /\ everNotified["peer"]
  /\ lastProv # EmptyMap

\* C8: deduplication.  Every event of a diff reports a change of the online
\* status between the previous successful fetch and this one, at most one
\* event per id; when the two fetches agree on the online status of every
\* id, no notification is sent.
Deduplicated ==
  Diffed =>
    LET b == obs.before.map
        c == obs.cur
    IN /\ \A i \in 1..Len(obs.changes) :
            LET e == obs.changes[i]
            IN /\ e.dir = "down" => OnlineIn(b, e.id) /\ ~OnlineIn(c, e.id)
               /\ e.dir = "up" => ~OnlineIn(b, e.id) /\ OnlineIn(c, e.id)
       /\ \A i, j \in 1..Len(obs.changes) :
            i # j => obs.changes[i].id # obs.changes[j].id
       /\ (\A id \in (DOMAIN b) \cup (DOMAIN c) :
             OnlineIn(b, id) = OnlineIn(c, id)) => obs.notif = NoNotif

\* after a reported change, the next successful fetch returns other raw
\* states with the same online status, and nothing is sent
DeduplicatedWitness ==
  /\ obs.class = "peer"
  /\ obs.outcome = "diff"
  /\ notifier # "nil"
  /\ everNotified["peer"]
  /\ obs.before.seen
  /\ obs.before.map # EmptyMap
  /\ obs.cur # EmptyMap
  /\ obs.before.map # obs.cur
  /\ obs.notif = NoNotif

\* C9: notification iff changes.  With a notifier configured, a diff with at
\* least one event makes one sink call (NotifyEmbed if the notifier has it,
\* else Notify) and a diff without events makes none; a cycle makes at most
\* two calls.
NotifyIffChanges ==
  /\ cycleSent <= 2
  /\ (obs.outcome # "none" /\ notifier # "nil") =>
       LET n == IF Len(obs.changes) > 0 THEN 1 ELSE 0
       IN /\ Len(obs.changes) > 0 =>
               obs.notif.method =
                 (IF notifier = "embed" THEN "NotifyEmbed" ELSE "Notify")
          /\ Len(obs.changes) = 0 => obs.notif = NoNotif
          /\ obs.class = "peer" => cycleSent = n
          /\ obs.class = "prov" => cycleSent \in {n, n + 1}

\* both classes changed in one cycle: two calls of the plain Notify
NotifyWitness ==
  /\ notifier = "plain"
  /\ obs.class = "prov"
  /\ obs.notif.method = "Notify"
  /\ cycleSent = 2

\* C10: retryable failures are never surfaced.  Inside a retry loop another
\* attempt is possible after a transport error, a 401/403 and a 5xx,
\* whatever the number of attempts so far, and a retry helper returns only a
\* status that is none of 401, 403 and >= 500.
RetryNeverSurfaces ==
  /\ InRetryLoop =>
       /\ ENABLED RetryTransport
       /\ ENABLED RetryAuth
       /\ ENABLED RetryServer
  /\ obs.ret.fn # "" =>
       /\ obs.ret.status \notin {401, 403}
       /\ obs.ret.status < 500
       /\ obs.ret.status \in Statuses

\* the GET of the peers is still retried after the attempt counter and the
\* backoff have reached their largest values
RetryWitness ==
  /\ pc = "peersFetch"
  /\ attempt = MaxAttempt
  /\ backoff = MaxBackoff
  /\ lastPeer # EmptyMap

\* a step starts a fetch: getWithRetry is entered for the peers or for the
\* providers, or postJSONWithRetry for a label
FetchStarts ==
  \/ pc' # pc /\ pc' \in {"peersFetch", "provFetch", "peerLabel"}
  \/ count'.names # count.names

\* a step ends the running fetch: its retry helper returns
FetchEnds ==
  /\ pc \in {"peersFetch", "provFetch", "peerLabel"}
  /\ pc' # pc \/ count'.names # count.names \/ peerNameCache' # peerNameCache

\* the attempts of the running fetch are all counted
AllCounted ==
  pc \in {"peersFetch", "provFetch", "peerLabel"} /\ attempt < world.attempts

\* the smaller of 1000 * 2^n milliseconds and 60 seconds
BackoffAfter(n) == IF 1000 * 2^n > 60000 THEN 60000 ELSE 1000 * 2^n

\* C11: backoff bounds and monotonicity.  Within a fetch the backoff is
\* 1 s doubled once per transport failure and per >= 500 response, capped
\* at 60 s (so it is 60 s after 6 such failures), it never decreases and
\* never exceeds 60 s; every fetch starts at 1 s.
BackoffBounds ==
  /\ [](pc \in {"peersFetch", "provFetch", "peerLabel"} =>
          /\ backoff >= 1000 /\ backoff <= 60000
          /\ AllCounted => backoff = BackoffAfter(tally.grown)
          /\ (AllCounted /\ tally.grown >= 6) => backoff = 60000)
  /\ [][FetchStarts => backoff' = 1000 /\ attempt' = 1]_vars
  /\ [][(~FetchStarts /\ pc' \in {"peersFetch", "provFetch", "peerLabel"}
          /\ pc \in {"peersFetch", "provFetch", "peerLabel"}) =>
          /\ backoff' >= backoff
          /\ (tally'.last = 0 \/ tally'.last >= 500) /\ tally' # tally =>
               backoff' = (IF 2 * backoff > 60000 THEN 60000 ELSE 2 * backoff)
       ]_vars

\* the seventh failure in a row of the peers fetch: the backoff has gone
\* 1, 2, 4, 8, 16, 32, 60 and stays at 60 seconds
BackoffWitness ==
  /\ pc = "peersFetch"
  /\ tally.grown = 7
  /\ tally.denied = 0
  /\ attempt = 8
  /\ backoff = 60000

\* C12: authorization path.  Every 401 / 403 response makes exactly one
\* call of Authenticate and one more attempt of the same request, and leaves
\* the backoff as it is: the backoff depends on the number of transport and
\* 5xx failures only, however the 401 / 403 responses interleave with them.
AuthPathKeepsBackoff ==
  /\ [](tally.auths = tally.denied /\ tally.denied >= 0)
  /\ [](AllCounted =>
          /\ attempt = 1 + tally.grown + tally.denied
          /\ backoff = BackoffAfter(tally.grown))
  /\ [][(tally'.last \in {401, 403} /\ tally' # tally) =>
          /\ tally'.auths = tally.auths + 1
          /\ tally'.denied = tally.denied + 1
          /\ tally'.grown = tally.grown
          /\ backoff' = backoff
          /\ attempt' = attempt + 1
          /\ pc' = pc
          /\ diff' = diff]_vars

\* a 401 / 403 arrives after two growths of the backoff and two earlier
\* 401 / 403: the backoff is still 4 seconds
AuthPathWitness ==
  /\ pc = "provFetch"
  /\ tally.denied = 3
  /\ tally.last = 403
  /\ tally.grown = 2
  /\ backoff = 4000
  /\ attempt = 6

\* C13: non-retryable statuses return at once.  A retry helper issues a
\* further request only after a transport error, a 401 / 403 or a >= 500;
\* any other status ends the fetch and is returned, and when it is not 200
\* the caller gets the error in that step and the request is not repeated:
\* checkOnce skips the class, resolvePeerLabel caches the empty label.
NonRetryableReturns ==
  /\ [][(attempt' = attempt + 1 /\ pc' = pc) =>
          tally'.last \in {0, 401, 403} \/ tally'.last >= 500]_vars
  /\ [][FetchEnds =>
          /\ obs'.ret.fn =
               (IF pc = "peerLabel" THEN "postJSONWithRetry"
                ELSE "getWithRetry")
          /\ obs'.ret.status \notin {401, 403}
          /\ obs'.ret.status < 500]_vars
  /\ [][(FetchEnds /\ obs'.ret.status # 200) =>
          IF pc = "peerLabel"
          THEN /\ diff.pending \notin DOMAIN peerNameCache
               /\ peerNameCache'[diff.pending] = <<>>
               /\ count'.names[diff.pending] = count.names[diff.pending]
          ELSE /\ obs'.outcome = "error"
               /\ pc' = (IF pc = "peersFetch" THEN "provFetch" ELSE "wait")
       ]_vars

\* GetPeerName got a 404 at its first attempt: the label lookup was made
\* once, the empty label is cached and the diff has finished
NonRetryableWitness ==
  /\ pc = "provFetch"
  /\ obs.ret = [fn |-> "postJSONWithRetry", status |-> 404]
  /\ obs.outcome = "diff"
  /\ obs.lookups = 1
  /\ peerNameCache = [id \in {Id_p1} |-> <<>>]
  /\ count.names[Id_p1] = 1

\* a poll cycle is in progress
InCycle == pc \in {"peersFetch", "peerLabel", "provFetch"}

\* C14: cycles do not overlap.  At most one checkOnce is in progress; it
\* starts only at Run's start or wait point; the provider fetch starts only
\* when the peer fetch has returned and the peer diff has finished; a tick
\* that arrives during a cycle starts nothing.
NoOverlap ==
  /\ [](count.running = (IF InCycle THEN 1 ELSE 0))
  /\ [][count'.running > count.running =>
          pc \in {"start", "wait"} /\ count.running = 0]_vars
  /\ [][(pc' = "provFetch" /\ pc # "provFetch") =>
          /\ pc \in {"peersFetch", "peerLabel"}
          /\ obs'.ret.fn # ""
          /\ obs'.class = "peer"
          /\ obs'.outcome \in {"cold", "diff", "error"}
          /\ diff' = NoDiff]_vars
  /\ [][(InCycle /\ count'.ticks > count.ticks) =>
          pc' = pc /\ count'.running = 1 /\ count'.cycles = count.cycles]_vars

\* two ticks have arrived while the second cycle retries its provider fetch;
\* one cycle is in progress
NoOverlapWitness ==
  /\ pc = "provFetch"
  /\ attempt = 2
  /\ tickPending
  /\ count.ticks = 3
  /\ count.cycles = 2
  /\ count.running = 1

\* C15: label lookup at most once per id.  GetPeerName is called at most
\* once for each non-empty peer id and never for the empty id; an id is
\* looked up only while it has no cache entry, and a cache entry (the empty
\* label of a failed lookup too) is never changed or removed.
LabelLookupOnce ==
  /\ [](\A id \in DOMAIN count.names :
          /\ count.names[id] <= 1
          /\ id = <<>> => count.names[id] = 0
          /\ id \in DOMAIN peerNameCache => count.names[id] = 1)
  /\ [][\A id \in DOMAIN count.names :
          count'.names[id] > count.names[id] =>
            id # <<>> /\ id \notin DOMAIN peerNameCache]_vars
  /\ [][\A id \in DOMAIN peerNameCache :
          id \in DOMAIN peerNameCache' /\
          peerNameCache'[id] = peerNameCache[id]]_vars

\* a lookup failed earlier and left the empty label; a later diff reports
\* the peer under its bare id without a lookup
LabelLookupWitness ==
  /\ peerNameCache = [id \in {Id_p1} |-> <<>>]
  /\ count.names[Id_p1] = 1
  /\ obs.class = "peer"
  /\ obs.outcome = "diff"
  /\ obs.lookups = 0
  /\ Len(obs.changes) = 1
  /\ obs.changes[1].id = Id_p1
  /\ obs.notif.method # "none"

\* the ticks and the cycles are all counted
TicksCounted == count.ticks < world.ticks

\* C16 as stated: the number of poll cycles started by Run equals the number
\* of ticks the timer has produced (read at the wait point with no tick
\* pending, where every tick produced so far has had its chance).
EveryTickOneCycle ==
  (pc = "wait" /\ ~tickPending /\ TicksCounted) =>
    count.cycles = count.ticks

\* C16 as amended: Run starts one cycle before any tick and then one cycle
\* per tick it takes from ticker.C; a tick produced while one is pending is
\* dropped, so the cycles started after the first are at most the ticks
\* produced and can be fewer.
TicksBoundCycles ==
  /\ []((pc # "start" /\ TicksCounted) =>
          /\ count.cycles >= 1
          /\ (count.cycles - 1) + (IF tickPending THEN 1 ELSE 0)
               <= count.ticks)
  /\ [][(count'.cycles > count.cycles /\ pc # "start") =>
          pc = "wait" /\ tickPending /\ ~tickPending']_vars
  /\ [][(pc = "start" /\ pc' # pc) =>
          count.ticks = 0 /\ count'.cycles = 1]_vars
  /\ [][(count'.ticks > count.ticks /\ tickPending) =>
          tickPending' /\ count'.cycles = count.cycles]_vars

\* two ticks were produced during the first cycle and one of them was
\* dropped: two cycles have started, and no tick is pending
TicksWitness ==
  /\ pc = "wait"
  /\ ~tickPending
  /\ count.ticks = 2
  /\ count.cycles = 2
  /\ count.running = 0

\* C17 as stated: once ctx.Done is raised, Run starts no further poll
\* cycle, also when a tick is pending at the wait point.
NoCycleAfterCancel ==
  [][cancelled => count'.running <= count.running]_vars

\* C18: shutdown liveness.  Run returns only from its wait point, with the
\* context cancelled and no cycle in progress (so never while a fetch keeps
\* retrying); and once the context is cancelled, if the fetches of the
\* cycle in progress terminate, Run eventually returns.
ShutdownLiveness ==
  /\ [][(pc' = "returned" /\ pc # "returned") =>
          /\ pc = "wait"
          /\ cancelled
          /\ count.running = 0
          /\ diff = NoDiff]_vars
  /\ [][(cancelled /\ InCycle /\ tally' # tally /\ tally'.last >= 0) =>
          pc' = pc]_vars
  /\ (cancelled ~> pc = "returned")

\* Run has returned after a second cycle, with a tick still pending
ShutdownWitness ==
  /\ pc = "returned"
  /\ cancelled
  /\ tickPending
  /\ count.cycles = 2
  /\ count.running = 0

\* C19: fetch termination.  When the service eventually answers with a
\* status other than 401, 403 and >= 500, every started fetch returns and
\* every started cycle finishes; a fetch ends only with such a status, and
\* no cycle starts while one is in progress.
FetchTermination ==
  /\ (pc = "peersFetch" ~> pc # "peersFetch")
  /\ (pc = "peerLabel" ~> pc # "peerLabel")
  /\ (pc = "provFetch" ~> pc # "provFetch")
  /\ (InCycle ~> ~InCycle)
  /\ [][FetchEnds =>
          /\ obs'.ret.status \in {200, 404}
          /\ tally' = NoTally]_vars
  /\ [][(InCycle /\ ~FetchEnds) =>
          InCycle' /\ count'.cycles = count.cycles]_vars

\* a cycle has finished although its provider fetch had to be retried: it
\* ended when a 404 came
FetchTerminationWitness ==
  /\ pc = "wait"
  /\ count.cycles = 2
  /\ obs.class = "prov"
  /\ obs.outcome = "error"
  /\ obs.ret = [fn |-> "getWithRetry", status |-> 404]
  /\ fetched["peer"].seen

\* C20 as stated: for both classes, the content phrase of a dispatched
\* notification is one of the negative phrases when the events contain a
\* down-event, and one of the positive phrases when all events are
\* up-events.
PhraseFromPool ==
  obs.notif.method # "none" =>
    IF \E i \in 1..Len(obs.changes) : obs.changes[i].dir = "down"
    THEN obs.notif.content \in {"down0", "down1", "down2"}
    ELSE obs.notif.content \in {"up0", "up1", "up2"}

\* the transition of id between mappings prev and cur, read from the raw
\* states: "down", "up" or "none"
ExpectedDir(prev, cur, id) ==
  IF OnlineIn(prev, id) /\ ~OnlineIn(cur, id) THEN "down"
  ELSE IF ~OnlineIn(prev, id) /\ OnlineIn(cur, id) THEN "up"
  ELSE "none"

\* the label id is shown under, given the cached names
ExpectedLabel(class, id) ==
  IF class = "peer" /\ id \in DOMAIN peerNameCache /\ peerNameCache[id] # <<>>
  THEN peerNameCache[id] \o <<40>> \o id \o <<41>>
  ELSE id

\* the text of the event of id
ExpectedText(class, prev, cur, id) ==
  EventText(IF class = "peer" THEN S_PeerPrefix ELSE S_ProvPrefix,
            ExpectedLabel(class, id), ExpectedDir(prev, cur, id))

\* the event texts of a diff in ascending order: the ids whose online status
\* differs, arranged so that no text is followed by a smaller one
ExpectedEvents(class, prev, cur) ==
  LET ids == {id \in (DOMAIN prev) \cup (DOMAIN cur) :
                ExpectedDir(prev, cur, id) # "none"}
      T(id) == ExpectedText(class, prev, cur, id)
      order == CHOOSE f \in [1..Cardinality(ids) -> ids] :
                 /\ \A i, j \in 1..Cardinality(ids) : i # j => f[i] # f[j]
                 /\ \A i, j \in 1..Cardinality(ids) :
                      i < j => ~StrLess(T(f[j]), T(f[i]))
  IN [i \in 1..Cardinality(ids) |-> [text |-> T(order[i])]]

\* C21: determinism of the event list.  The body of a notification is a
\* function of the previous snapshot, the current mapping and the cached
\* labels alone: it lists the events in ascending order of their text,
\* whatever order the two maps were iterated in.
EventListDeterministic ==
  obs.notif.method # "none" =>
    obs.notif.desc =
      S_Bullet \o JoinChanges(ExpectedEvents(obs.class, obs.prev, obs.cur))

\* the loops appended two peer events with the greater text first, and the
\* body lists them
EventListWitness ==
  /\ obs.class = "peer"
  /\ obs.notif.method # "none"
  /\ Len(obs.changes) = 2
  /\ StrLess(obs.changes[2].text, obs.changes[1].text)
  /\ obs.lookups > 0

\* a step of a retry loop that sleeps, while the attempts are counted
Sleeps == tally' # tally /\ tally'.last >= 0

\* C22 as stated: the jitter is below 400 ms, so a sleep after a transport
\* failure or a 5xx response is at least the backoff and less than the
\* backoff + 400 ms, and a sleep after a 401 / 403 response is at least
\* 200 ms and less than 400 ms.
JitterBelow400 ==
  /\ [](\A d \in jitter : 0 <= d /\ d < 400 * Millisecond)
  /\ [][Sleeps =>
          IF IsAuthStatus(tally'.last)
          THEN /\ tally'.slept >= 200 * Millisecond
               /\ tally'.slept < 400 * Millisecond
          ELSE /\ tally'.slept >= backoff * Millisecond
               /\ tally'.slept < backoff * Millisecond + 400 * Millisecond]_vars

\* C22, amended: the jitter is a whole number of milliseconds from 0 to 400,
\* both included, so a sleep after a transport failure or a 5xx response is at
\* least the backoff and at most the backoff + 400 ms, and a sleep after a
\* 401 / 403 response is at least 200 ms and at most 400 ms.
JitterAtMost400 ==
  /\ [](\A d \in jitter : /\ 0 <= d /\ d <= 400 * Millisecond
                          /\ d % Millisecond = 0)
  /\ [][Sleeps =>
          IF IsAuthStatus(tally'.last)
          THEN /\ tally'.slept >= 200 * Millisecond
               /\ tally'.slept <= 400 * Millisecond
          ELSE /\ tally'.slept >= backoff * Millisecond
               /\ tally'.slept <= backoff * Millisecond + 400 * Millisecond]_vars

\* the second sleep of a fetch after a 5xx response, with the backoff at two
\* seconds, lasts 2.4 s
JitterWitness ==
  /\ tally.grown = 2
  /\ tally.last >= 500
  /\ tally.slept = 2 * InitialBackoff * Millisecond + 400 * Millisecond

\* how the notification of the observed diff ended: sent, failed, or not
\* attempted
SinkOutcome ==
  IF obs.notif = NoNotif THEN "none" ELSE obs.notif.result

\* C23: snapshot replacement is independent of the notification.  When a
\* diff has returned, the stored snapshot of its class is the fetched mapping,
\* whether the notification was sent, failed, or was not attempted; and a
\* diff that follows a failed notification of its class compares against the
\* mapping of the previous fetch and reports only the ids whose online
\* status has changed since, so the failed events are not sent again.
SnapshotReplaced ==
  /\ [](Diffed =>
          /\ SinkOutcome \in {"ok", "err", "none"}
          /\ Stored(obs.class) = obs.cur
          /\ fetched[obs.class].map = obs.cur)
  /\ [][(obs' # obs /\ obs'.outcome = "diff" /\ lastSent[obs'.class] = "err") =>
          /\ obs'.before.seen
          /\ obs'.prev = obs'.before.map
          /\ \A i \in 1..Len(obs'.changes) :
               OnlineIn(obs'.prev, obs'.changes[i].id)
                 # OnlineIn(obs'.cur, obs'.changes[i].id)
          /\ (\A id \in (DOMAIN obs'.prev) \cup (DOMAIN obs'.cur) :
                OnlineIn(obs'.prev, id) = OnlineIn(obs'.cur, id))
               => obs'.notif = NoNotif]_vars

\* the latest notification about peers failed, and a later peer diff, with
\* another mapping fetched and stored, has sent nothing
SnapshotReplacedWitness ==
  /\ lastSent["peer"] = "err"
  /\ notifier # "nil"
  /\ obs.class = "peer"
  /\ obs.outcome = "diff"
  /\ obs.notif = NoNotif
  /\ obs.cur # obs.prev
  /\ lastPeer = obs.cur

\* the step ends a fetch or a diff of class c with the given outcomes
Ends(c, outcomes) ==
  obs' # obs /\ obs'.class = c /\ obs'.outcome \in outcomes

\* C24: class independence.  The peer half of a cycle leaves the provider
\* snapshot alone and diffs against the peer snapshot; the provider half
\* leaves the peer snapshot and the label cache alone, diffs against the
\* provider snapshot and shows the raw ids.  A peer fetch error is followed
\* by the provider fetch of the same cycle, and a provider fetch error leaves
\* the peer snapshot as the peer half of the cycle stored it.
ClassIndependence ==
  [][/\ pc \in {"peersFetch", "peerLabel"} => lastProv' = lastProv
     /\ pc = "provFetch" =>
          /\ lastPeer' = lastPeer
          /\ peerNameCache' = peerNameCache
          /\ fetched'["peer"] = fetched["peer"]
     /\ Ends("peer", {"cold", "diff"}) =>
          /\ obs'.prev = lastPeer
          /\ lastPeer' = obs'.cur
     /\ Ends("prov", {"cold", "diff"}) =>
          /\ obs'.prev = lastProv
          /\ lastProv' = obs'.cur
          /\ obs'.lookups = 0
          /\ \A i \in 1..Len(obs'.changes) :
               obs'.changes[i].text =
                 EventText(S_ProvPrefix, obs'.changes[i].id,
                           obs'.changes[i].dir)
     /\ Ends("peer", {"error"}) =>
          /\ pc = "peersFetch" /\ pc' = "provFetch"
          /\ attempt' = 1 /\ backoff' = InitialBackoff
          /\ count'.running = count.running
     /\ Ends("prov", {"error"}) =>
          /\ lastPeer' = lastPeer
          /\ fetched["peer"].seen => lastPeer = fetched["peer"].map
    ]_vars

\* no peer fetch has succeeded, so the peer fetch of this cycle failed, and
\* the provider diff of the cycle has sent a notification
ClassIndependenceWitness ==
  /\ ~fetched["peer"].seen
  /\ lastPeer = EmptyMap
  /\ obs.class = "prov"
  /\ obs.outcome = "diff"
  /\ obs.notif # NoNotif
  /\ lastProv = obs.cur

====
